---- MODULE Spec2Model ----
(***************************************************************************)
(* Block identifiers and the block record of                                *)
(* ethers-core/src/types/chainstate/block.rs.                               *)
(*                                                                         *)
(* The file holds pure value-level code: conversions into BlockId and      *)
(* BlockNumber, their hand-written Serialize impls, and the derived        *)
(* Deserialize of Block<TX>.  A behaviour is one use of that code: the      *)
(* caller converts or constructs an identifier and serializes it, or hands *)
(* a JSON object to the block decoder.  `call` is the function last        *)
(* called, `arg` its argument and `ret` what it returned.                  *)
(***************************************************************************)
EXTENDS Integers, Sequences, FiniteSets, TLC

VARIABLES call, arg, ret

vars == <<call, arg, ret>>

(***************************************************************************)
(* Bounds of the model.                                                    *)
(***************************************************************************)
\* Heights are drawn with at most this many free hex digits.
MaxDigits == 2

\* A transactions array holds at most this many elements.
MaxTxs == 2

\* A decoded object differs from a test's object in at most this many keys.
MaxEdits == 1

(***************************************************************************)
(* Primitive values.  U64 is one 64-bit word, kept as its 16 hex digits    *)
(* (most significant first), which is how the formatter walks it; H256 is  *)
(* 32 bytes.                                                               *)
(***************************************************************************)
U64Nibbles == 16

H256Bytes == 32

Nothing == [ty |-> "none"]

HexDigits == <<"0", "1", "2", "3", "4", "5", "6", "7",
               "8", "9", "a", "b", "c", "d", "e", "f">>

\* "{:x}" of one nibble
HexChar(n) == HexDigits[n + 1]

\* "{:02x}" of one byte
Hex2(b) == <<HexChar(b \div 16), HexChar(b % 16)>>

\* A word whose digits `ds` sit `shift` hex digits above the lowest one.
WordOf(ds, shift) ==
  [i \in 1..U64Nibbles |->
     LET j == i - (U64Nibbles - shift - Len(ds))
     IN  IF j \in 1..Len(ds) THEN ds[j] ELSE 0]

SampleNibbles == {0, 1, 3, 5, 15}

Shifts == {0, 6, U64Nibbles - MaxDigits}

\* The heights the model draws: 0, 1, 3, ..., values of 7 to 16 hex digits,
\* and u64::MAX.
Heights ==
  {WordOf(ds, s) : ds \in UNION {[1..k -> SampleNibbles] : k \in 1..MaxDigits},
                   s \in Shifts}
  \cup {[i \in 1..U64Nibbles |-> 15]}

SampleBytes == {0, 1, 10, 171, 255}

\* The hashes the model draws, the zero hash and hashes with leading zero
\* bytes among them.
Hashes ==
  {[i \in 1..H256Bytes |-> (b + (i - 1) * step) % 256] :
     b \in SampleBytes, step \in {0, 1, 17}}

\* The primitive unsigned integer types with From<_> for U64, by width in
\* hex digits.
IntWidth == [u8 |-> 2, u16 |-> 4, u32 |-> 8, u64 |-> 16]

IntTypes == {"u8", "u16", "u32", "u64"}

\* The values of primitive type `t`: the sample heights cut to its width.
Ints(t) ==
  {[ty |-> t, v |-> [i \in 1..IntWidth[t] |-> h[U64Nibbles - IntWidth[t] + i]]] :
     h \in Heights}

\* U64 values
U64s == {[ty |-> "U64", v |-> h] : h \in Heights}

\* IntoU64 gone wrong: the integer cast to 32 bits on the way (num as u32).
IntoU64_truncating(num) ==
  [ty |-> "U64",
   v  |-> [i \in 1..U64Nibbles |->
             LET j == i - (U64Nibbles - Len(num.v))
             IN  IF j >= 1 /\ i > U64Nibbles - 8 THEN num.v[j] ELSE 0]]

\* num.into(): a primitive unsigned integer widened to U64 (U64 into U64 is
\* the identity).
IntoU64(num) ==
  [ty |-> "U64",
   v  |-> [i \in 1..U64Nibbles |->
             LET j == i - (U64Nibbles - Len(num.v))
             IN  IF j >= 1 THEN num.v[j] ELSE 0]]

H256s == {[ty |-> "H256", v |-> h] : h \in Hashes}

(***************************************************************************)
(* enum BlockNumber, enum BlockId                                          *)
(***************************************************************************)
Latest == [ty |-> "BlockNumber", variant |-> "Latest"]

Earliest == [ty |-> "BlockNumber", variant |-> "Earliest"]

Pending == [ty |-> "BlockNumber", variant |-> "Pending"]

BlockNumber_Number(x) == [ty |-> "BlockNumber", variant |-> "Number", x |-> x]

BlockNumbers == {Latest, Earliest, Pending} \cup {BlockNumber_Number(x) : x \in U64s}

BlockId_Hash(h) == [ty |-> "BlockId", variant |-> "Hash", x |-> h]

BlockId_Number(n) == [ty |-> "BlockId", variant |-> "Number", x |-> n]

BlockIds == {BlockId_Hash(h) : h \in H256s} \cup {BlockId_Number(n) : n \in BlockNumbers}

(***************************************************************************)
(* Conversions                                                             *)
(***************************************************************************)
\* impl<T: Into<U64>> From<T> for BlockNumber
BlockNumber_from(num) == BlockNumber_Number(IntoU64(num))

\* impl From<BlockNumber> for BlockId
BlockId_from_BlockNumber(num) == BlockId_Number(num)

\* impl From<u64> for BlockId
BlockId_from_u64(num) == BlockId_from_BlockNumber(BlockNumber_Number(IntoU64(num)))

\* impl From<U64> for BlockId
BlockId_from_U64(num) == BlockId_from_BlockNumber(BlockNumber_Number(num))

\* impl From<H256> for BlockId
BlockId_from_H256(hash) == BlockId_Hash(hash)

(***************************************************************************)
(* JSON values, as serde_json builds them                                  *)
(***************************************************************************)
\* serializer.serialize_str
JsonStr(s) == [ty |-> "json", kind |-> "string", str |-> s]

\* serialize_struct ... end: an object holding the serialized fields in order
JsonObj(es) == [ty |-> "json", kind |-> "object", entries |-> es]

RECURSIVE Concat(_)
Concat(ss) == IF ss = <<>> THEN <<>> ELSE Head(ss) \o Concat(Tail(ss))

\* "{:x}" of a U64: "0" for zero; else every digit from the first non-zero
\* one on (the latch of the formatter's loop).
RECURSIVE LowerHexFrom(_, _, _)
LowerHexFrom(w, i, latch) ==
  IF i > U64Nibbles THEN <<>>
  ELSE LET on == latch \/ w[i] # 0
       IN  (IF on THEN <<HexChar(w[i])>> ELSE <<>>) \o LowerHexFrom(w, i + 1, on)

\* LowerHex gone wrong: zero-padded to the full width ("{:016x}").
LowerHex_padded(x) == [i \in 1..U64Nibbles |-> HexChar(x.v[i])]

\* LowerHex gone wrong: the latch tested at every digit, so that zero digits
\* inside the numeral are dropped too.
LowerHex_noLatch(x) ==
  IF \A i \in 1..U64Nibbles : x.v[i] = 0 THEN <<"0">>
  ELSE Concat([i \in 1..U64Nibbles |-> IF x.v[i] # 0 THEN <<HexChar(x.v[i])>> ELSE <<>>])

LowerHex(x) ==
  IF \A i \in 1..U64Nibbles : x.v[i] = 0 THEN <<"0">>
  ELSE LowerHexFrom(x.v, 1, FALSE)

\* DebugH256 gone wrong: "{}" for "{:?}", which abbreviates the hash to its
\* first and last two bytes.
DebugH256_display(h) ==
  <<"0", "x">> \o Hex2(h.v[1]) \o Hex2(h.v[2]) \o <<"...">>
    \o Hex2(h.v[H256Bytes - 1]) \o Hex2(h.v[H256Bytes])

\* "{:?}" of an H256: "0x" and two hex digits for every byte.
DebugH256(h) == <<"0", "x">> \o Concat([i \in 1..H256Bytes |-> Hex2(h.v[i])])

\* BlockNumber_serialize gone wrong: what #[derive(Serialize)] would write,
\* the variant's name for a tag and {"Number": ...} for a height.
BlockNumber_serialize_derived(self) ==
  CASE self.variant = "Number"   ->
         JsonObj(<<[key |-> "Number", value |-> JsonStr(<<"0", "x">> \o LowerHex(self.x))]>>)
    [] self.variant = "Latest"   -> JsonStr(<<"L", "a", "t", "e", "s", "t">>)
    [] self.variant = "Earliest" -> JsonStr(<<"E", "a", "r", "l", "i", "e", "s", "t">>)
    [] self.variant = "Pending"  -> JsonStr(<<"P", "e", "n", "d", "i", "n", "g">>)

\* impl Serialize for BlockNumber
BlockNumber_serialize(self) ==
  CASE self.variant = "Number"   -> JsonStr(<<"0", "x">> \o LowerHex(self.x))
    [] self.variant = "Latest"   -> JsonStr(<<"l", "a", "t", "e", "s", "t">>)
    [] self.variant = "Earliest" -> JsonStr(<<"e", "a", "r", "l", "i", "e", "s", "t">>)
    [] self.variant = "Pending"  -> JsonStr(<<"p", "e", "n", "d", "i", "n", "g">>)

\* BlockId_serialize gone wrong: the number put under a key like the hash.
BlockId_serialize_keyed(self) ==
  CASE self.variant = "Hash"   ->
         JsonObj(<<[key |-> "blockHash", value |-> JsonStr(DebugH256(self.x))]>>)
    [] self.variant = "Number" ->
         JsonObj(<<[key |-> "blockNumber", value |-> BlockNumber_serialize(self.x)]>>)

\* impl Serialize for BlockId
BlockId_serialize(self) ==
  CASE self.variant = "Hash"   ->
         JsonObj(<<[key |-> "blockHash", value |-> JsonStr(DebugH256(self.x))]>>)
    [] self.variant = "Number" -> BlockNumber_serialize(self.x)

(***************************************************************************)
(* struct Block<TX> and its derived Deserialize                            *)
(***************************************************************************)
\* The fields of Block<TX> in declaration order: the semantic name, the wire
\* key (serde rename), the type, whether it is an Option, whether it is a
\* Vec, whether it carries #[serde(default)], and the build it exists in
\* (#[cfg(feature = "celo")], #[cfg(not(feature = "celo"))] or both).
Field(name, key, type, option, vec, default, cfg) ==
  [name |-> name, key |-> key, type |-> type, option |-> option, vec |-> vec,
   default |-> default, cfg |-> cfg]

BlockFields ==
  << Field("hash",              "hash",             "H256",       TRUE,  FALSE, FALSE, "any"),
     Field("parent_hash",       "parentHash",       "H256",       FALSE, FALSE, FALSE, "any"),
     Field("uncles_hash",       "sha3Uncles",       "H256",       FALSE, FALSE, FALSE, "not_celo"),
     Field("author",            "miner",            "Address",    FALSE, FALSE, FALSE, "any"),
     Field("state_root",        "stateRoot",        "H256",       FALSE, FALSE, FALSE, "any"),
     Field("transactions_root", "transactionsRoot", "H256",       FALSE, FALSE, FALSE, "any"),
     Field("receipts_root",     "receiptsRoot",     "H256",       FALSE, FALSE, FALSE, "any"),
     Field("number",            "number",           "U64",        TRUE,  FALSE, FALSE, "any"),
     Field("gas_used",          "gasUsed",          "U256",       FALSE, FALSE, FALSE, "any"),
     Field("gas_limit",         "gasLimit",         "U256",       FALSE, FALSE, FALSE, "not_celo"),
     Field("extra_data",        "extraData",        "Bytes",      FALSE, FALSE, FALSE, "any"),
     Field("logs_bloom",        "logsBloom",        "Bloom",      TRUE,  FALSE, FALSE, "any"),
     Field("timestamp",         "timestamp",        "U256",       FALSE, FALSE, FALSE, "any"),
     Field("difficulty",        "difficulty",       "U256",       FALSE, FALSE, FALSE, "not_celo"),
     Field("total_difficulty",  "totalDifficulty",  "U256",       TRUE,  FALSE, FALSE, "any"),
     Field("seal_fields",       "sealFields",       "Bytes",      FALSE, TRUE,  TRUE,  "any"),
     Field("uncles",            "uncles",           "H256",       FALSE, TRUE,  FALSE, "not_celo"),
     Field("transactions",      "transactions",     "TX",         FALSE, TRUE,  FALSE, "any"),
     Field("size",              "size",             "U256",       TRUE,  FALSE, FALSE, "any"),
     Field("mix_hash",          "mixHash",          "H256",       TRUE,  FALSE, FALSE, "not_celo"),
     Field("nonce",             "nonce",            "U64",        TRUE,  FALSE, FALSE, "not_celo"),
     Field("randomness",        "randomness",       "Randomness", FALSE, FALSE, FALSE, "celo") >>

\* Whether field number i is compiled into the build.
Compiled(i, celo) ==
  \/ BlockFields[i].cfg = "any"
  \/ BlockFields[i].cfg = "celo" /\ celo
  \/ BlockFields[i].cfg = "not_celo" /\ ~celo

\* The field numbers of the build, in declaration order.
FieldsOf(celo) == {i \in 1..Len(BlockFields) : Compiled(i, celo)}

\* The field of the build that wire key k names; 0 for a key the build does
\* not know (the derive has no deny_unknown_fields: such a key is skipped).
FieldOfKey(k, celo) ==
  IF \E i \in FieldsOf(celo) : BlockFields[i].key = k
  THEN CHOOSE i \in FieldsOf(celo) : BlockFields[i].key = k
  ELSE 0

\* The element types TX is instantiated with; TxHash is an alias of H256.
TXTypes == {"TxHash", "Transaction"}

\* ElemType gone wrong: transactions: Vec<H256>, whatever TX is.
ElemType_hashOnly(type, TX) == IF type = "TX" THEN "H256" ELSE type

ElemType(type, TX) ==
  IF type = "TX" THEN (IF TX = "TxHash" THEN "H256" ELSE "Transaction") ELSE type

(***************************************************************************)
(* JSON values on the wire.  The primitive types and Transaction are       *)
(* external: a wire value is a string that is the text of one primitive    *)
(* type, an object that is a well-formed Transaction or Randomness, an     *)
(* array, null, or a JSON number (which none of the field types accepts).  *)
(***************************************************************************)
WireStr(type, v) == [kind |-> "string", as |-> type, v |-> v]

WireObj(type, v) == [kind |-> "object", as |-> type, v |-> v]

WireArr(items) == [kind |-> "array", items |-> items]

WireNull == [kind |-> "null"]

WireNum == [kind |-> "number"]

Ok(x) == [ok |-> TRUE, x |-> x]

Fail(kind, key) == [ok |-> FALSE, err |-> [kind |-> kind, field |-> key]]

\* T::deserialize for a primitive type, Transaction or Randomness.
DeserializeValue(type, val) ==
  IF type \in {"Transaction", "Randomness"}
  THEN IF val.kind = "object" /\ val.as = type
       THEN Ok([ty |-> type, v |-> val.v])
       ELSE Fail("invalid type", "")
  ELSE IF val.kind = "string" /\ val.as = type
       THEN Ok([ty |-> type, v |-> val.v])
       ELSE Fail("invalid type", "")

\* Vec<T>::deserialize: an array, every element decoded in order, the first
\* failure ending it.
RECURSIVE DeserializeItems(_, _)
DeserializeItems(type, items) ==
  IF items = <<>> THEN Ok(<<>>)
  ELSE LET first == DeserializeValue(type, Head(items))
       IN  IF ~first.ok THEN first
           ELSE LET rest == DeserializeItems(type, Tail(items))
                IN  IF ~rest.ok THEN rest ELSE Ok(<<first.x>> \o rest.x)

DeserializeVec(type, val) ==
  IF val.kind # "array" THEN Fail("invalid type", "")
  ELSE LET r == DeserializeItems(type, val.items)
       IN  IF r.ok THEN Ok([ty |-> "Vec", items |-> r.x]) ELSE r

None == [ty |-> "Option", some |-> FALSE]

Some(x) == [ty |-> "Option", some |-> TRUE, x |-> x]

\* Option<T>::deserialize: null is None, anything else must decode as T.
DeserializeOption(type, val) ==
  IF val.kind = "null" THEN Ok(None)
  ELSE LET r == DeserializeValue(type, val)
       IN  IF r.ok THEN Ok(Some(r.x)) ELSE r

\* The value of a present key, decoded as its field's type.
DeserializeField(f, val, TX) ==
  IF f.vec THEN DeserializeVec(ElemType(f.type, TX), val)
  ELSE IF f.option THEN DeserializeOption(f.type, val)
  ELSE DeserializeValue(f.type, val)

Unset == [ty |-> "unset"]

\* The derived visit_map, first half: the entries in wire order.  A key of
\* the build seen twice is a duplicate-field error, a value that does not
\* decode ends the whole decode, an unknown key is skipped.
RECURSIVE VisitMap(_, _, _, _)
VisitMap(entries, slots, celo, TX) ==
  IF entries = <<>> THEN Ok(slots)
  ELSE LET e == Head(entries)
           i == FieldOfKey(e.key, celo)
       IN  IF i = 0 THEN VisitMap(Tail(entries), slots, celo, TX)
           ELSE IF slots[i] # Unset THEN Fail("duplicate field", e.key)
           ELSE LET r == DeserializeField(BlockFields[i], e.value, TX)
                IN  IF ~r.ok THEN Fail("invalid type", e.key)
                    ELSE VisitMap(Tail(entries), [slots EXCEPT ![i] = r.x], celo, TX)

\* MissingField gone wrong: #[serde(default)] on the struct, every absent
\* field taking its Default.
MissingField_containerDefault(f) ==
  IF f.vec THEN [ok |-> TRUE, x |-> [ty |-> "Vec", items |-> <<>>]]
  ELSE IF f.option THEN [ok |-> TRUE, x |-> [ty |-> "Option", some |-> FALSE]]
  ELSE [ok |-> TRUE, x |-> [ty |-> f.type, v |-> "default"]]

\* MissingField gone wrong: #[serde(default)] left off seal_fields.
MissingField_noDefault(f) ==
  IF f.option THEN [ok |-> TRUE, x |-> [ty |-> "Option", some |-> FALSE]]
  ELSE [ok |-> FALSE, err |-> [kind |-> "missing field", field |-> f.key]]

\* MissingField gone wrong: #[serde(default)] on every Vec field.
MissingField_vecDefault(f) ==
  IF f.vec THEN [ok |-> TRUE, x |-> [ty |-> "Vec", items |-> <<>>]]
  ELSE IF f.option THEN [ok |-> TRUE, x |-> [ty |-> "Option", some |-> FALSE]]
  ELSE [ok |-> FALSE, err |-> [kind |-> "missing field", field |-> f.key]]

\* What the derive does for a field whose key never came: Default::default()
\* under #[serde(default)]; serde's missing_field otherwise, which is None
\* for an Option and a missing-field error for anything else.
MissingField(f) ==
  IF f.default THEN Ok([ty |-> "Vec", items |-> <<>>])
  ELSE IF f.option THEN Ok(None)
  ELSE Fail("missing field", f.key)

\* The derived visit_map, second half: the unset fields in declaration
\* order, the first missing required one ending the decode.
RECURSIVE FillMissing(_, _, _)
FillMissing(slots, i, celo) ==
  IF i > Len(BlockFields) THEN Ok(slots)
  ELSE IF ~Compiled(i, celo) \/ slots[i] # Unset THEN FillMissing(slots, i + 1, celo)
  ELSE LET r == MissingField(BlockFields[i])
       IN  IF ~r.ok THEN r
           ELSE FillMissing([slots EXCEPT ![i] = r.x], i + 1, celo)

\* serde_json::from_str::<Block<TX>> of a JSON object: the whole Block, or
\* an error and nothing else.
Block_deserialize(entries, celo, TX) ==
  LET seen == VisitMap(entries, [i \in FieldsOf(celo) |-> Unset], celo, TX)
  IN  IF ~seen.ok THEN [ty |-> "Result", ok |-> FALSE, err |-> seen.err]
      ELSE LET all == FillMissing(seen.x, 1, celo)
           IN  IF ~all.ok THEN [ty |-> "Result", ok |-> FALSE, err |-> all.err]
               ELSE [ty |-> "Result", ok |-> TRUE,
                     block |-> [n \in {BlockFields[i].name : i \in FieldsOf(celo)} |->
                                  all.x[CHOOSE i \in FieldsOf(celo) : BlockFields[i].name = n]]]


(***************************************************************************)
(* The JSON objects handed to the decoder: the objects of the file's three *)
(* tests, each with up to MaxEdits of its keys removed, set to null, set   *)
(* to a JSON number, given again, added, or (transactions, sealFields)     *)
(* given another array.                                                    *)
(***************************************************************************)
Entry(k, v) == [key |-> k, value |-> v]

\* A well-formed value of the field that key k names.
WellFormed(k) ==
  LET f == BlockFields[CHOOSE i \in 1..Len(BlockFields) : BlockFields[i].key = k]
  IN  IF f.vec THEN WireArr(<<>>)
      ELSE IF f.type = "Randomness" THEN WireObj("Randomness", k)
      ELSE WireStr(f.type, k)

\* One element of a transactions array: a bare hash string or a full
\* transaction object of that hash.
TxWire(shape, id) ==
  IF shape = "hash" THEN WireStr("H256", id) ELSE WireObj("Transaction", id)

TxShapes == {"hash", "object"}

\* The transactions arrays: element i is transaction i of the block, in
\* either shape.
TxLists ==
  UNION {{[i \in 1..n |-> TxWire(shapes[i], i)] : shapes \in [1..n -> TxShapes]} :
           n \in 0..MaxTxs}

\* tests::deserialize_blk_no_txs
PrimaryKeys ==
  <<"number", "hash", "parentHash", "mixHash", "nonce", "sha3Uncles", "logsBloom",
    "transactionsRoot", "stateRoot", "receiptsRoot", "miner", "difficulty",
    "totalDifficulty", "extraData", "size", "gasLimit", "gasUsed", "timestamp",
    "transactions", "uncles">>

BlkNoTxs ==
  [i \in 1..Len(PrimaryKeys) |->
     IF PrimaryKeys[i] = "transactions"
     THEN Entry("transactions", WireArr(<<TxWire("hash", 1)>>))
     ELSE Entry(PrimaryKeys[i], WellFormed(PrimaryKeys[i]))]

\* tests::deserialize_blk_with_txs
BlkWithTxs ==
  [i \in 1..Len(PrimaryKeys) |->
     IF PrimaryKeys[i] = "transactions"
     THEN Entry("transactions", WireArr(<<TxWire("object", 1)>>))
     ELSE Entry(PrimaryKeys[i], WellFormed(PrimaryKeys[i]))]

\* celo_tests::block
CeloKeys ==
  <<"extraData", "gasUsed", "hash", "logsBloom", "miner", "number", "parentHash",
    "randomness", "receiptsRoot", "size", "stateRoot", "timestamp",
    "totalDifficulty", "transactions", "transactionsRoot">>

CeloBlock ==
  [i \in 1..Len(CeloKeys) |->
     IF CeloKeys[i] = "transactions"
     THEN Entry("transactions", WireArr(<<TxWire("object", 1)>>))
     ELSE Entry(CeloKeys[i], WellFormed(CeloKeys[i]))]

Fixtures == {BlkNoTxs, BlkWithTxs, CeloBlock}

HasKey(entries, k) == \E i \in 1..Len(entries) : entries[i].key = k

ValueOf(entries, k) == entries[CHOOSE i \in 1..Len(entries) : entries[i].key = k].value

KeySeq == [i \in 1..Len(BlockFields) |-> BlockFields[i].key]

\* The edits of an object: a key taken out, a key's value replaced (the key
\* added at the end when the object lacks it), a key given a second time.
EditsOf(entries) ==
  LET keys == {KeySeq[i] : i \in 1..Len(KeySeq)}
      has  == {k \in keys : HasKey(entries, k)}
  IN  {[op |-> "remove", key |-> k] : k \in has}
      \cup {[op |-> "again", key |-> k, value |-> ValueOf(entries, k)] : k \in has}
      \cup {[op |-> "set", key |-> k, value |-> v] : k \in keys, v \in {WireNull, WireNum}}
      \cup {[op |-> "set", key |-> k, value |-> WellFormed(k)] : k \in keys \ has}
      \cup {[op |-> "set", key |-> "transactions", value |-> WireArr(l)] : l \in TxLists}
      \cup {[op |-> "set", key |-> "sealFields",
             value |-> WireArr(<<WireStr("Bytes", "seal")>>)]}

ApplyEdit(entries, e) ==
  CASE e.op = "remove" -> SelectSeq(entries, LAMBDA x : x.key # e.key)
    [] e.op = "again"  -> Append(entries, Entry(e.key, e.value))
    [] e.op = "set"    ->
         IF HasKey(entries, e.key)
         THEN [i \in 1..Len(entries) |->
                 IF entries[i].key = e.key THEN Entry(e.key, e.value) ELSE entries[i]]
         ELSE Append(entries, Entry(e.key, e.value))

\* The edits of `es` applied key by key, in the order of the field table.
RECURSIVE ApplyEdits(_, _, _)
ApplyEdits(entries, es, i) ==
  IF i > Len(KeySeq) THEN entries
  ELSE IF \E e \in es : e.key = KeySeq[i]
       THEN ApplyEdits(ApplyEdit(entries, CHOOSE e \in es : e.key = KeySeq[i]), es, i + 1)
       ELSE ApplyEdits(entries, es, i + 1)

NoEdit == [op |-> "none", key |-> ""]

\* The objects decoded: a test's object under up to MaxEdits edits, no two
\* of one key.
EditLists(fx) ==
  {ev \in [1..MaxEdits -> EditsOf(fx) \cup {NoEdit}] :
     \A i, j \in 1..MaxEdits : i < j /\ ev[i].key = ev[j].key => ev[i] = NoEdit /\ ev[j] = NoEdit}

Edited(fx, ev) == ApplyEdits(fx, {ev[i] : i \in 1..MaxEdits}, 1)

\* serde_json::from_str::<Block<TX>>(json) in a build with (celo) or
\* without the celo feature, about to be called.
Request(json, celo, TX) == [ty |-> "from_str", json |-> json, celo |-> celo, TX |-> TX]

(***************************************************************************)
(* The caller's steps                                                      *)
(***************************************************************************)
Init ==
  /\ call = "start"
  /\ ret = Nothing
  /\ \/ arg = Nothing
     \/ \E fx \in Fixtures : \E ev \in EditLists(fx) : \E celo \in BOOLEAN, TX \in TXTypes :
          arg = Request(Edited(fx, ev), celo, TX)

\* An identifier written as a literal variant (the only way to a tag).
Construct ==
  /\ call = "start"
  /\ arg = Nothing
  /\ \E id \in BlockNumbers \cup BlockIds :
       /\ call' = "construct"
       /\ arg' = Nothing
       /\ ret' = id

ConvertBlockNumber ==
  /\ call = "start"
  /\ arg = Nothing
  /\ \E t \in IntTypes : \E num \in Ints(t) \cup U64s :
       /\ call' = "BlockNumber::from"
       /\ arg' = num
       /\ ret' = BlockNumber_from(num)

ConvertU64Prim ==
  /\ call = "start"
  /\ arg = Nothing
  /\ \E num \in Ints("u64") :
       /\ call' = "BlockId::from<u64>"
       /\ arg' = num
       /\ ret' = BlockId_from_u64(num)

ConvertU64 ==
  /\ call = "start"
  /\ arg = Nothing
  /\ \E num \in U64s :
       /\ call' = "BlockId::from<U64>"
       /\ arg' = num
       /\ ret' = BlockId_from_U64(num)

ConvertBlockNumberToId ==
  /\ call \in {"construct", "BlockNumber::from"}
  /\ ret.ty = "BlockNumber"
  /\ call' = "BlockId::from<BlockNumber>"
  /\ arg' = ret
  /\ ret' = BlockId_from_BlockNumber(ret)

ConvertH256 ==
  /\ call = "start"
  /\ arg = Nothing
  /\ \E hash \in H256s :
       /\ call' = "BlockId::from<H256>"
       /\ arg' = hash
       /\ ret' = BlockId_from_H256(hash)

SerializeBlockNumber ==
  /\ call \in {"construct", "BlockNumber::from"}
  /\ ret.ty = "BlockNumber"
  /\ call' = "BlockNumber::serialize"
  /\ arg' = ret
  /\ ret' = BlockNumber_serialize(ret)

SerializeBlockId ==
  /\ call \in {"construct", "BlockId::from<u64>", "BlockId::from<U64>",
               "BlockId::from<BlockNumber>", "BlockId::from<H256>"}
  /\ ret.ty = "BlockId"
  /\ call' = "BlockId::serialize"
  /\ arg' = ret
  /\ ret' = BlockId_serialize(ret)

\* let _block: Block<TX> = serde_json::from_str(&block)
DeserializeBlock ==
  /\ call = "start"
  /\ arg.ty = "from_str"
  /\ call' = "Block::deserialize"
  /\ arg' = arg
  /\ ret' = Block_deserialize(arg.json, arg.celo, arg.TX)

Next ==
  \/ DeserializeBlock
  \/ Construct
  \/ ConvertBlockNumber
  \/ ConvertU64Prim
  \/ ConvertU64
  \/ ConvertBlockNumberToId
  \/ ConvertH256
  \/ SerializeBlockNumber
  \/ SerializeBlockId

Spec == Init /\ [][Next]_vars

(***************************************************************************)
(* What the claims speak of, stated apart from the code above              *)
(***************************************************************************)
LowerHexAlphabet == {HexDigits[n] : n \in 1..Len(HexDigits)}

\* The value of a lowercase hex digit.
HexVal(c) == CHOOSE n \in 0..15 : HexDigits[n + 1] = c

IsLowerHex(s) == \A i \in 1..Len(s) : s[i] \in LowerHexAlphabet

Has0x(s) == Len(s) >= 2 /\ s[1] = "0" /\ s[2] = "x"

\* The digits of a string after its first two characters.
After0x(s) == SubSeq(s, 3, Len(s))

\* The 64-bit word that hex digits ds are the numeral of.
WordOfDigits(ds) ==
  [i \in 1..U64Nibbles |->
     IF i > U64Nibbles - Len(ds) THEN HexVal(ds[i - (U64Nibbles - Len(ds))]) ELSE 0]

\* A string read as a "0x"-prefixed hexadecimal number of at most 64 bits.
ParseHexQuantity(s) ==
  IF Has0x(s) /\ Len(s) \in 3..(2 + U64Nibbles) /\ IsLowerHex(After0x(s))
  THEN [ok |-> TRUE, v |-> WordOfDigits(After0x(s))]
  ELSE [ok |-> FALSE]

TagStrings ==
  {<<"l", "a", "t", "e", "s", "t">>,
   <<"e", "a", "r", "l", "i", "e", "s", "t">>,
   <<"p", "e", "n", "d", "i", "n", "g">>}

SerializedHash == call = "BlockId::serialize" /\ arg.variant = "Hash"

SerializedIdNumber == call = "BlockId::serialize" /\ arg.variant = "Number"

SerializedHeight == call = "BlockNumber::serialize" /\ arg.variant = "Number"

SerializedTag == call = "BlockNumber::serialize" /\ arg.variant # "Number"

Decoded == call = "Block::deserialize"

\* C1: BlockId::Hash(h) serializes to an object with the one key
\* "blockHash", whose value is the string "0x" followed by the two lowercase
\* hex digits of every byte of h: full width, never a bare string.
C1_HashIsBlockHashObject ==
  SerializedHash =>
    /\ ret.kind = "object"
    /\ Len(ret.entries) = 1
    /\ ret.entries[1].key = "blockHash"
    /\ ret.entries[1].value.kind = "string"
    /\ LET s == ret.entries[1].value.str
       IN  /\ Has0x(s)
           /\ Len(s) = 2 + 2 * H256Bytes
           /\ IsLowerHex(After0x(s))
           /\ \A i \in 1..H256Bytes :
                16 * HexVal(s[2 * i + 1]) + HexVal(s[2 * i + 2]) = arg.x.v[i]

\* A hash with a leading zero byte and a byte above 0x9f has been serialized.
C1_Witness ==
  /\ SerializedHash
  /\ arg.x.v[1] = 0
  /\ \E i \in 1..H256Bytes : arg.x.v[i] > 159
  /\ ret.kind = "object"

\* C2: BlockNumber::Number(h) serializes to the bare string "0x" followed by
\* the lowercase hex numeral of h without leading zeros ("0x3" for 3, "0x0"
\* for 0).
C2_HeightIsMinimalHex ==
  SerializedHeight =>
    /\ ret.kind = "string"
    /\ Has0x(ret.str)
    /\ LET ds == After0x(ret.str)
       IN  /\ Len(ds) \in 1..U64Nibbles
           /\ IsLowerHex(ds)
           /\ Len(ds) > 1 => ds[1] # "0"
           /\ WordOfDigits(ds) = arg.x.v
    /\ arg.x.v = WordOf(<<3>>, 0) => ret.str = <<"0", "x", "3">>
    /\ arg.x.v = WordOf(<<0>>, 0) => ret.str = <<"0", "x", "0">>

\* Height 3 has been serialized.
C2_Witness ==
  /\ SerializedHeight
  /\ arg.x.v = WordOf(<<3>>, 0)
  /\ ret.str = <<"0", "x", "3">>

\* C3: Latest, Earliest and Pending serialize to exactly "latest",
\* "earliest" and "pending", never to a "0x" string, and no Number(h)
\* serializes to one of the three tag strings.
C3_TagsAreLiterals ==
  /\ SerializedTag =>
       /\ ret.kind = "string"
       /\ arg.variant = "Latest"   => ret.str = <<"l", "a", "t", "e", "s", "t">>
       /\ arg.variant = "Earliest" => ret.str = <<"e", "a", "r", "l", "i", "e", "s", "t">>
       /\ arg.variant = "Pending"  => ret.str = <<"p", "e", "n", "d", "i", "n", "g">>
       /\ ~Has0x(ret.str)
  /\ SerializedHeight => ret.kind = "string" /\ ret.str \notin TagStrings

\* Pending has been serialized.
C3_Witness ==
  /\ SerializedTag
  /\ arg.variant = "Pending"
  /\ ret.str \in TagStrings

\* C4: BlockId::Number(n) serializes to exactly what n alone serializes to,
\* a bare string: never an object, never under a key.
C4_NumberIdFlattens ==
  SerializedIdNumber =>
    /\ ret = BlockNumber_serialize(arg.x)
    /\ ret.kind = "string"

\* A BlockId holding height 3 has been serialized.
C4_Witness ==
  /\ SerializedIdNumber
  /\ arg.x.variant = "Number"
  /\ arg.x.x.v = WordOf(<<3>>, 0)
  /\ ret.kind = "string"

\* C8: the conversions keep the variant and the value: u64 and U64 become
\* BlockId::Number(BlockNumber::Number(n)) of the same n, a hash becomes
\* BlockId::Hash of it, a BlockNumber becomes BlockId::Number of it, and
\* BlockNumber::from of an integer is a Number, never a tag.
C8_ConversionsKeepVariant ==
  /\ call \in {"BlockId::from<u64>", "BlockId::from<U64>"} =>
       /\ ret.ty = "BlockId" /\ ret.variant = "Number"
       /\ ret.x.ty = "BlockNumber" /\ ret.x.variant = "Number"
       /\ ret.x.x.ty = "U64" /\ ret.x.x.v = arg.v
  /\ call = "BlockId::from<H256>" =>
       ret.ty = "BlockId" /\ ret.variant = "Hash" /\ ret.x = arg
  /\ call = "BlockId::from<BlockNumber>" =>
       ret.ty = "BlockId" /\ ret.variant = "Number" /\ ret.x = arg
  /\ call = "BlockNumber::from" =>
       /\ ret.ty = "BlockNumber" /\ ret.variant = "Number"
       /\ ret.variant \notin {"Latest", "Earliest", "Pending"}

\* The integer 5 has been converted into a BlockId.
C8_Witness ==
  /\ call = "BlockId::from<u64>"
  /\ arg.v = WordOf(<<5>>, 0)
  /\ ret.x.x.v = WordOf(<<5>>, 0)

\* C9: the string Number(h) serializes to, read as a "0x"-prefixed
\* hexadecimal number, is h again; so no other height serializes to it.
C9_HeightRoundTrips ==
  SerializedHeight =>
    /\ ParseHexQuantity(ret.str) = [ok |-> TRUE, v |-> arg.x.v]
    /\ \A other \in U64s :
         other # arg.x => BlockNumber_serialize(BlockNumber_Number(other)).str # ret.str

\* A height of eight or more hex digits has been serialized and reads back.
C9_Witness ==
  /\ SerializedHeight
  /\ Len(ret.str) >= 10
  /\ ParseHexQuantity(ret.str).ok

\* The wire keys the primary build cannot decode without.
RequiredPrimaryKeys ==
  {"parentHash", "sha3Uncles", "miner", "stateRoot", "transactionsRoot",
   "receiptsRoot", "gasUsed", "gasLimit", "extraData", "timestamp", "difficulty",
   "uncles", "transactions"}

\* C5: under primary-variant rules the decode fails as a whole, an error and
\* no Block, whenever a required wire key is absent; the alternate-variant
\* object of the celo test (well-formed for the Block<Transaction> the test
\* decodes it as), decoded under primary-variant rules, fails with a
\* missing-field error naming a primary-only key.
C5_MissingRequiredKeyFails ==
  (Decoded /\ ~arg.celo) =>
    /\ (\E k \in RequiredPrimaryKeys : ~HasKey(arg.json, k)) =>
         /\ ~ret.ok
         /\ DOMAIN ret = {"ty", "ok", "err"}
    /\ (arg.json = CeloBlock /\ arg.TX = "Transaction") =>
         /\ ~ret.ok
         /\ ret.err.kind = "missing field"
         /\ ret.err.field \in {"sha3Uncles", "gasLimit", "difficulty", "uncles"}

\* The celo test's object has been decoded under primary-variant rules.
C5_Witness ==
  /\ Decoded
  /\ ~arg.celo
  /\ arg.json = CeloBlock
  /\ arg.TX = "Transaction"
  /\ ~ret.ok
  /\ ret.err.kind = "missing field"

\* The object with a well-formed sealFields array added at its end.
WithSealFields(json, items) == Append(json, Entry("sealFields", WireArr(items)))

SealArrays == {<<>>, <<WireStr("Bytes", "seal")>>}

\* C6: a primary-variant object without the sealFields key, valid otherwise
\* (it decodes once a sealFields array is added), decodes to a Block whose
\* seal_fields is empty and whose other fields are what they are with
\* sealFields present.
C6_AbsentSealFieldsIsEmpty ==
  (Decoded /\ ~arg.celo /\ ~HasKey(arg.json, "sealFields")) =>
    \A items \in SealArrays :
      LET with == Block_deserialize(WithSealFields(arg.json, items), arg.celo, arg.TX)
      IN  with.ok =>
            /\ ret.ok
            /\ ret.block.seal_fields = [ty |-> "Vec", items |-> <<>>]
            /\ \A n \in DOMAIN with.block \ {"seal_fields"} : ret.block[n] = with.block[n]

\* The object of deserialize_blk_no_txs, which has no sealFields key, has
\* been decoded.
C6_Witness ==
  /\ Decoded
  /\ ~arg.celo
  /\ arg.json = BlkNoTxs
  /\ arg.TX = "TxHash"
  /\ ret.ok
  /\ ret.block.seal_fields.items = <<>>

\* The object has one transactions array, all of whose elements have `shape`.
TxsAllOf(json, shape) ==
  /\ HasKey(json, "transactions")
  /\ LET val == ValueOf(json, "transactions")
     IN  /\ val.kind = "array"
         /\ \A i \in 1..Len(val.items) : val.items[i] = TxWire(shape, val.items[i].v)

\* The same object with every transaction given in `shape`.
WithTxShape(json, shape) ==
  [i \in 1..Len(json) |->
     IF json[i].key = "transactions"
     THEN Entry("transactions",
                WireArr([j \in 1..Len(json[i].value.items) |->
                           TxWire(shape, json[i].value.items[j].v)]))
     ELSE json[i]]

ShapeOf(TX) == IF TX = "TxHash" THEN "hash" ELSE "object"

OtherTX(TX) == IF TX = "TxHash" THEN "Transaction" ELSE "TxHash"

\* C7: of two objects that differ only in giving the transactions as hash
\* strings or as full objects, the first decodes as Block<TxHash> when and as
\* the second decodes as Block<Transaction>: every other field the same, the
\* transactions in wire order and number.  The two tests' objects decode.
\* The element type is the caller's: an element of the other shape is not
\* accepted.
C7_DecodeIsParametricInTX ==
  Decoded =>
    /\ (ret.ok /\ TxsAllOf(arg.json, ShapeOf(arg.TX))) =>
         LET other == Block_deserialize(WithTxShape(arg.json, ShapeOf(OtherTX(arg.TX))),
                                        arg.celo, OtherTX(arg.TX))
             wire  == ValueOf(arg.json, "transactions").items
             mine  == ret.block.transactions.items
         IN  /\ other.ok
             /\ \A n \in DOMAIN ret.block \ {"transactions"} : other.block[n] = ret.block[n]
             /\ Len(mine) = Len(wire)
             /\ Len(other.block.transactions.items) = Len(wire)
             /\ \A i \in 1..Len(wire) :
                  /\ mine[i].v = wire[i].v
                  /\ other.block.transactions.items[i].v = wire[i].v
                  /\ mine[i].ty = (IF arg.TX = "TxHash" THEN "H256" ELSE "Transaction")
    /\ (~arg.celo /\ arg.json = BlkNoTxs /\ arg.TX = "TxHash") => ret.ok
    /\ (~arg.celo /\ arg.json = BlkWithTxs /\ arg.TX = "Transaction") => ret.ok
    /\ ret.ok => TxsAllOf(arg.json, ShapeOf(arg.TX))

\* Two full transaction objects have been decoded into a Block<Transaction>.
C7_Witness ==
  /\ Decoded
  /\ arg.TX = "Transaction"
  /\ ret.ok
  /\ Len(ret.block.transactions.items) = 2
  /\ ret.block.transactions.items[1] # ret.block.transactions.items[2]

\* C10: in a decoded Block no field but seal_fields has a value its absent
\* wire key did not give: a field whose key is absent holds nothing (None),
\* which only an Option can, so no key of a required field is absent.
C10_OnlySealFieldsDefaults ==
  (Decoded /\ ret.ok) =>
    \A i \in FieldsOf(arg.celo) :
      (~HasKey(arg.json, BlockFields[i].key) /\ BlockFields[i].name # "seal_fields") =>
        /\ ret.block[BlockFields[i].name] = [ty |-> "Option", some |-> FALSE]
        /\ BlockFields[i].option

\* An object without the hash key has been decoded into a Block.
C10_Witness ==
  /\ Decoded
  /\ ret.ok
  /\ ~HasKey(arg.json, "hash")
  /\ ~HasKey(arg.json, "sealFields")


====
